---- MODULE Spec2Model ----
(***************************************************************************)
(* Model of download_canvas_courses (src/app/downloader.py): the helpers   *)
(* safe_name, unique_path, is_same_host, authed_headers_for,               *)
(* resolve_file_via_api, allowed_file_type, download_binary,               *)
(* extract_file_id, and the course / module / item walk.                   *)
(*                                                                         *)
(* A Python str is a sequence of one-character strings; None and "" are    *)
(* both the empty sequence where the code only tests truthiness.           *)
(***************************************************************************)
EXTENDS Integers, Sequences, FiniteSets, TLC

(***************************************************************************)
(* Bounds of the model.                                                    *)
(***************************************************************************)
MaxStrLen == 4
MaxCourses == 2
MaxModules == 1
MaxItems == 1
MaxElems == 2

(***************************************************************************)
(* Character classes of safe_name's two regular expressions.               *)
(***************************************************************************)
ForbiddenChars == {"\\", "/", "*", "?", ":", "\"", "<", ">", "|"}
Whitespace == {" ", "\t", "\n", "\r"}

Min(a, b) == IF a < b THEN a ELSE b

Take(s, n) == SubSeq(s, 1, Min(n, Len(s)))

\* re.sub(r'[Class]+', rep, s): every maximal run of Class characters
\* becomes one rep (the first character of a run is kept as rep, the rest
\* of the run is dropped).
SubRuns(s, Class, rep) ==
    LET kept == SelectSeq([i \in 1..Len(s) |-> i],
                    LAMBDA i : s[i] \notin Class \/ i = 1
                               \/ s[i-1] \notin Class)
    IN [k \in 1..Len(kept) |->
            IF s[kept[k]] \in Class THEN rep ELSE s[kept[k]]]

\* str.strip()
Strip(s) ==
    LET solid == {i \in 1..Len(s) : s[i] \notin Whitespace}
    IN IF solid = {} THEN <<>>
       ELSE SubSeq(s, CHOOSE i \in solid : \A j \in solid : i <= j,
                      CHOOSE i \in solid : \A j \in solid : i >= j)

Untitled == <<"u", "n", "t", "i", "t", "l", "e", "d">>

safe_name(name, maxlen) ==
    IF name = <<>> THEN Untitled
    ELSE Take(Strip(SubRuns(SubRuns(name, ForbiddenChars, "_"),
                            Whitespace, " ")), maxlen)

DefaultMaxLen == 120

\* pathlib: the final component of a path given as text (POSIX flavour).
\* str.rfind(c): the last index of c in s, 0 when there is none.
RFind(s, c) ==
    LET at == {i \in 1..Len(s) : s[i] = c}
    IN IF at = {} THEN 0 ELSE CHOOSE i \in at : \A j \in at : i >= j

RECURSIVE PathName(_)
PathName(s) ==
    IF s = <<>> THEN <<>>
    ELSE IF s[Len(s)] = "/" THEN PathName(SubSeq(s, 1, Len(s) - 1))
    ELSE LET k == RFind(s, "/")
             comp == SubSeq(s, k + 1, Len(s))
         IN IF comp = <<".">> THEN PathName(SubSeq(s, 1, k)) ELSE comp

\* pathlib PurePath.suffix / PurePath.stem of a file name.
PathSuffix(s) ==
    LET n == PathName(s)
        i == RFind(n, ".")
    IN IF 1 < i /\ i < Len(n) THEN SubSeq(n, i, Len(n)) ELSE <<>>

PathStem(s) ==
    LET n == PathName(s)
        i == RFind(n, ".")
    IN IF 1 < i /\ i < Len(n) THEN SubSeq(n, 1, i - 1) ELSE n

\* str.lower() on the letters the model uses.
LowerChar(c) ==
    CASE c = "P" -> "p" [] c = "D" -> "d" [] c = "F" -> "f"
      [] c = "O" -> "o" [] c = "C" -> "c" [] c = "X" -> "x" [] OTHER -> c

Lower(s) == [i \in 1..Len(s) |-> LowerChar(s[i])]

\* Decimal text of a natural number, as an f-string prints it.
DigitChar(d) ==
    CASE d = 0 -> "0" [] d = 1 -> "1" [] d = 2 -> "2" [] d = 3 -> "3"
      [] d = 4 -> "4" [] d = 5 -> "5" [] d = 6 -> "6" [] d = 7 -> "7"
      [] d = 8 -> "8" [] OTHER -> "9"

RECURSIVE Decimal(_)
Decimal(n) ==
    IF n < 10 THEN <<DigitChar(n)>>
    ELSE Decimal(n \div 10) \o <<DigitChar(n % 10)>>

Numbered(filename, i) ==
    PathStem(filename) \o <<" ", "(">> \o Decimal(i) \o <<")">>
        \o PathSuffix(filename)

\* unique_path variant that returns the requested name even when taken.
unique_path_clobber(dir, filename) == filename

\* dir is the set of names that exist in dirpath; the result is the name
\* inside dirpath.  The while loop stops at the first free index.
unique_path(dir, filename) ==
    IF filename \notin dir THEN filename
    ELSE LET free == {i \in 1..(Cardinality(dir) + 1) :
                          Numbered(filename, i) \notin dir}
             i == CHOOSE k \in free : \A j \in free : k <= j
         IN Numbered(filename, i)

(***************************************************************************)
(* URLs.  A URL is [netloc, path, frag]: netloc is [host, port], path the  *)
(* sequence of its "/"-separated segments (a trailing "" segment is a      *)
(* trailing slash), frag the fragment.  The scheme is left out: no code    *)
(* of the downloader reads it.                                             *)
(***************************************************************************)
NoNetloc == [host |-> "", port |-> ""]
NoUrl == [netloc |-> NoNetloc, path |-> <<>>, frag |-> ""]

CanvasNetloc == [host |-> "canvas", port |-> ""]
CanvasAltPort == [host |-> "canvas", port |-> "8080"]
CdnNetloc == [host |-> "cdn", port |-> ""]

\* The api_url argument, given with a trailing slash.
ApiUrl == [netloc |-> CanvasNetloc, path |-> <<"">>, frag |-> ""]

\* str.rstrip("/") on the URL text.
RECURSIVE RStripSlash(_)
RStripSlash(u) ==
    IF u.path # <<>> /\ u.path[Len(u.path)] = ""
    THEN RStripSlash([u EXCEPT !.path = SubSeq(u.path, 1, Len(u.path) - 1)])
    ELSE u

api_url_clean == RStripSlash(ApiUrl)

\* is_same_host variant that accepts every URL.
is_same_host_any(url) == TRUE

is_same_host(url) == url.netloc = api_url_clean.netloc

\* The headers beyond BASE_HEADERS; api_key is "" or the token.
authed_headers_for(url, api_key) ==
    IF is_same_host(url) /\ api_key # ""
    THEN [Authorization |-> TRUE, Referer |-> TRUE]
    ELSE [Authorization |-> FALSE, Referer |-> FALSE]

\* Path segments that match \d+.
DigitSegs == {"1", "2"}

\* file_id_re.search(path): the leftmost "/files/<digits>" followed by "/"
\* or the end; "" when there is none.
extract_file_id(url) ==
    LET hits == {i \in 1..(Len(url.path) - 1) :
                    url.path[i] = "files" /\ url.path[i+1] \in DigitSegs}
    IN IF hits = {} THEN ""
       ELSE url.path[(CHOOSE i \in hits : \A j \in hits : i <= j) + 1]

(***************************************************************************)
(* Extension allow-list.                                                   *)
(***************************************************************************)
DEFAULT_EXTS ==
    { <<".", "p", "d", "f">>, <<".", "d", "o", "c">>,
      <<".", "d", "o", "c", "x">>, <<".", "t", "x", "t">>,
      <<".", "r", "t", "f">>, <<".", "p", "p", "t">>,
      <<".", "p", "p", "t", "x">>, <<".", "i", "p", "y", "n", "b">>,
      <<".", "p", "y">>, <<".", "j", "p", "g">>,
      <<".", "j", "p", "e", "g">>, <<".", "p", "n", "g">>,
      <<".", "g", "i", "f">>, <<".", "z", "i", "p">>,
      <<".", "r", "a", "r">>, <<".", "7", "z">>,
      <<".", "t", "a", "r">>, <<".", "g", "z">> }

\* allowed_exts or DEFAULT_EXTS
ALLOWED_EXTS(allowed_exts) ==
    IF allowed_exts = {} THEN DEFAULT_EXTS ELSE allowed_exts

allowed_file_type(filename, allowed_exts) ==
    Lower(PathSuffix(filename)) \in ALLOWED_EXTS(allowed_exts)

\* infer_filename_from_headers: cd is the file name captured from the
\* Content-Disposition header (<<>> when absent or unmatched), urlname the
\* final segment of the URL path.
infer_filename_from_headers(urlname, cd, fallback) ==
    IF cd # <<>> THEN safe_name(cd, DefaultMaxLen)
    ELSE safe_name(IF urlname # <<>> THEN urlname ELSE fallback, DefaultMaxLen)

Download == <<"d", "o", "w", "n", "l", "o", "a", "d">>

(***************************************************************************)
(* download_binary.  dir is the set of names in out_dir; resp is the       *)
(* response: status "http_error" (the GET or raise_for_status raises),     *)
(* "stream_error" (iter_content raises after open()) or "ok"; cd and       *)
(* urlname (the final path segment of url, as text) feed                   *)
(* infer_filename_from_headers.  The result tells the returned path (<<>>  *)
(* for None), the file left in out_dir, whether its body is complete,      *)
(* whether the failure line was logged, and the request that was sent.     *)
(***************************************************************************)
NoPath == <<>>

download_binary(url, dir, preferred_name, resp, api_key, allowed_exts) ==
    LET h == authed_headers_for(url, api_key)
        request == [fn |-> "download_binary", netloc |-> url.netloc,
                    Authorization |-> h.Authorization, Referer |-> h.Referer]
        fname == safe_name(IF preferred_name # <<>> THEN preferred_name
                           ELSE infer_filename_from_headers(resp.urlname,
                                                            resp.cd, Download),
                           DefaultMaxLen)
        target == unique_path(dir, fname)
    IN IF resp.status = "http_error"
       THEN [path |-> NoPath, created |-> NoPath, complete |-> FALSE,
             logged |-> TRUE, request |-> request]
       ELSE IF ~allowed_file_type(fname, allowed_exts)
       THEN [path |-> NoPath, created |-> NoPath, complete |-> FALSE,
             logged |-> FALSE, request |-> request]
       ELSE IF resp.status = "stream_error"
       THEN [path |-> NoPath, created |-> target, complete |-> FALSE,
             logged |-> TRUE, request |-> request]
       ELSE [path |-> target, created |-> target, complete |-> TRUE,
             logged |-> FALSE, request |-> request]

NoJson == [url |-> NoUrl, download_url |-> NoUrl,
           display_name |-> <<>>, filename |-> <<>>]

\* resolve_file_via_api: file_id is the identifier's text, ok is FALSE when
\* anything inside the try raises, j is the JSON body (absent keys are
\* NoUrl / <<>>).
resolve_file_via_api(file_id, ok, j, api_key) ==
    LET endpoint == [netloc |-> api_url_clean.netloc,
                     path |-> api_url_clean.path
                                 \o <<"api", "v1", "files", file_id>>,
                     frag |-> ""]
        h == authed_headers_for(endpoint, api_key)
        request == [fn |-> "resolve_file_via_api", netloc |-> endpoint.netloc,
                    Authorization |-> h.Authorization, Referer |-> h.Referer]
    IN IF ~ok THEN [best |-> NoUrl, name |-> <<>>, request |-> request]
       ELSE [best |-> IF j.url # NoUrl THEN j.url ELSE j.download_url,
             name |-> IF j.display_name # <<>> THEN j.display_name
                      ELSE j.filename,
             request |-> request]

(***************************************************************************)
(* extract_all_links_from_html.  An HTML fragment is the sequence of its   *)
(* elements in document order; an element is [tag, val, api]: val is the   *)
(* value of the attribute the code reads for that tag (href of a, src of   *)
(* img and embed, data of object), api the data-api-endpoint attribute.    *)
(* An attribute value is [form, netloc, path, frag] with form "none"       *)
(* (attribute absent), "empty" (""), "blank" (whitespace only), "abs"      *)
(* (absolute URL), "abspath" (a reference that starts with "/") or         *)
(* "malformed" (a value urlsplit rejects with ValueError, "http://[").      *)
(***************************************************************************)
NoAttr == [form |-> "none", netloc |-> NoNetloc, path |-> <<>>, frag |-> ""]

\* urljoin(base, ref.strip()) for the forms above.
urljoin(base, ref) ==
    CASE ref.form = "abs" ->
            [netloc |-> ref.netloc, path |-> ref.path, frag |-> ref.frag]
      [] ref.form = "abspath" ->
            [netloc |-> base.netloc, path |-> ref.path, frag |-> ref.frag]
      [] OTHER -> base

Verbatim(ref) == [netloc |-> ref.netloc, path |-> ref.path, frag |-> ref.frag]

RECURSIVE Dedupe(_, _)
Dedupe(urls, seen) ==
    IF urls = <<>> THEN <<>>
    ELSE LET normalized == [Head(urls) EXCEPT !.frag = ""]
         IN IF normalized \in seen THEN Dedupe(Tail(urls), seen)
            ELSE <<normalized>> \o Dedupe(Tail(urls), seen \cup {normalized})

extract_all_links_from_html(html_body, page_base_url) ==
    LET Joined(es) == [i \in 1..Len(es) |-> urljoin(page_base_url, es[i].val)]
        Apis(es) == [i \in 1..Len(es) |-> Verbatim(es[i].api)]
        anchors == SelectSeq(html_body,
                       LAMBDA e : e.tag = "a" /\ e.val.form # "none")
        Of(tag) == SelectSeq(html_body,
                       LAMBDA e : e.tag = tag
                                  /\ e.val.form \notin {"none", "empty"})
        eps == SelectSeq(html_body,
                       LAMBDA e : e.api.form \notin {"none", "empty", "blank"})
        urls == Joined(anchors) \o Joined(Of("img")) \o Joined(Of("embed"))
                \o Joined(Of("object")) \o Apis(eps)
    IN Dedupe(urls, {})

\* Whether extract_all_links_from_html raises instead of returning: urljoin
\* or urlparse meets a malformed value among the attributes that are read.
extract_raises(html_body) ==
    \E i \in 1..Len(html_body) :
        \/ html_body[i].tag \in {"a", "img", "embed", "object"}
              /\ html_body[i].val.form = "malformed"
        \/ html_body[i].api.form = "malformed"

\* modules.sort(key=position): a stable insertion sort of the positions.
RECURSIVE InsertByPosition(_, _)
InsertByPosition(sorted, m) ==
    IF sorted = <<>> THEN <<m>>
    ELSE IF sorted[Len(sorted)] <= m THEN Append(sorted, m)
    ELSE Append(InsertByPosition(SubSeq(sorted, 1, Len(sorted) - 1), m),
                sorted[Len(sorted)])

RECURSIVE SortByPosition(_)
SortByPosition(ms) ==
    IF ms = <<>> THEN <<>>
    ELSE InsertByPosition(SortByPosition(SubSeq(ms, 1, Len(ms) - 1)),
                          ms[Len(ms)])

\* max(num_courses, 1) variant without the floor.
ProgressTotalRaw(n) == n

\* max(num_courses, 1), the total of every progress event.
ProgressTotal(n) == IF n > 1 THEN n ELSE 1

(***************************************************************************)
(* Inputs of a run: what the caller passes and what the remote side        *)
(* answers.                                                                *)
(***************************************************************************)
Pdf == <<".", "p", "d", "f">>
NPdf == <<"n", ".", "p", "d", "f">>
NDocxUpper == <<"n", ".", "D", "O", "C", "X">>
\* A display name one character longer than safe_name's default maxlen.
LongPdf == [i \in 1..(DefaultMaxLen - 3) |-> "a"] \o Pdf

NoId == [t |-> "none", v |-> ""]
\* content_id as the text "1" and as the integer 1: Python's == and set
\* membership tell them apart.
ContentIds == {NoId, [t |-> "str", v |-> "1"], [t |-> "int", v |-> "1"]}

DlPath == <<"dl">>
\* Three answers of the file endpoint: a PDF served from another host, a
\* .DOCX served from the API host (download_url / filename keys), and a PDF
\* with a 121-character name served from the API host on another port.
JsonCdnPdf ==
    [url |-> [netloc |-> CdnNetloc, path |-> DlPath, frag |-> ""],
     download_url |-> NoUrl, display_name |-> NPdf, filename |-> <<>>]
JsonCanvasDocx ==
    [url |-> NoUrl,
     download_url |-> [netloc |-> CanvasNetloc, path |-> DlPath, frag |-> ""],
     display_name |-> <<>>, filename |-> NDocxUpper]
JsonAltLong ==
    [url |-> [netloc |-> CanvasAltPort, path |-> DlPath, frag |-> ""],
     download_url |-> NoUrl, display_name |-> LongPdf, filename |-> <<>>]

Resps == [status : {"http_error", "stream_error", "ok"},
          cd : {<<>>}, urlname : {<<"d", "l">>}]

Ref(form, netloc, path, frag) ==
    [form |-> form, netloc |-> netloc, path |-> path, frag |-> frag]

\* The pages get_page can return: title and body.
Body0 == <<>>
Body1 ==
    << [tag |-> "a", val |-> Ref("abs", CdnNetloc, <<"x">>, ""),
        api |-> NoAttr],
       [tag |-> "a", val |-> Ref("abspath", NoNetloc, <<"files", "1">>, "top"),
        api |-> NoAttr],
       [tag |-> "img",
        val |-> Ref("abspath", NoNetloc, <<"files", "1", "preview">>, ""),
        api |-> NoAttr] >>
Body2 ==
    << [tag |-> "a", val |-> Ref("malformed", NoNetloc, <<>>, ""),
        api |-> NoAttr] >>
Pages == { [title |-> <<>>, body |-> Body0],
           [title |-> <<"n">>, body |-> Body1],
           [title |-> <<"n">>, body |-> Body2] }
Html == <<".", "h", "t", "m", "l">>
PageType == <<"P", "a", "g", "e">>

Positions == {1, 2}
ModuleLists(most) == UNION {[1..n -> Positions] : n \in 0..most}

\* The output tree before the run: an earlier run left two files in the
\* directory of course 1's module 1; every other directory starts empty.
InitialTree ==
    {[course |-> 1, dir |-> 1, name |-> n, fid |-> "", complete |-> TRUE,
      run |-> FALSE] : n \in {NPdf, Numbered(NPdf, 1)}}

\* The caller's arguments: api_key, allowed_exts, whether progress_cb is given.
CfgPdfOnly == [api_key |-> "token", allowed_exts |-> {Pdf}, has_cb |-> TRUE]
CfgDefaults == [api_key |-> "", allowed_exts |-> {}, has_cb |-> FALSE]

\* The runs that are explored: arguments and the file the API serves.
Scenarios ==
    { [cfg |-> CfgPdfOnly, remote |-> JsonCdnPdf],
      [cfg |-> CfgPdfOnly, remote |-> JsonCanvasDocx],
      [cfg |-> CfgDefaults, remote |-> JsonCanvasDocx],
      [cfg |-> CfgPdfOnly, remote |-> JsonAltLong] }

(***************************************************************************)
(* State.                                                                  *)
(***************************************************************************)
VARIABLES
    pc,                      \* where download_canvas_courses is
    cfg,                     \* api_key, allowed_exts, progress_cb given?
    remote,                  \* the JSON the API serves for a file identifier
    num_courses,             \* len(courses); course k has id k
    cidx,                    \* courses the for loop has finished with
    done_courses,
    mods,                    \* positions of the sorted modules
    midx,                    \* modules entered so far
    mcount,                  \* modules listed so far in the run
    icount,                  \* module items handled so far in the run
    links,                   \* links of the current page still to visit
    downloaded_ids,
    files_downloaded,
    pages_saved,
    linked_files_downloaded,
    fs,                      \* files of the output tree
    summaries,
    progress,                \* events passed to progress_cb
    log,                     \* lines passed to the logging sink
    reqs,                    \* requests sent through the session
    outcomes,                \* per finished course: "ok" or "raised"
    attempts,                \* resolved files: name, fetch status, on disk?
    lastWrite,               \* directory before / name asked / name written
    probe                    \* argument and result of a helper under test

vars == <<pc, cfg, remote, num_courses, cidx, done_courses, mods, midx,
          mcount, icount, links,
          downloaded_ids, files_downloaded, pages_saved,
          linked_files_downloaded, fs, summaries, progress, log, reqs,
          outcomes, attempts, lastWrite, probe>>

NoWrite == [dir |-> {}, req |-> <<>>, got |-> <<>>]
NoProbe == [s |-> <<>>, maxlen |-> 0, once |-> <<>>, twice |-> <<>>,
            done |-> FALSE]

Line(kind, course, text) == [kind |-> kind, course |-> course, text |-> text]

Idle ==
    /\ num_courses = 0 /\ cidx = 0 /\ done_courses = 0
    /\ mods = <<>> /\ midx = 0 /\ mcount = 0 /\ icount = 0 /\ links = <<>>
    /\ downloaded_ids = {} /\ files_downloaded = 0 /\ pages_saved = 0
    /\ linked_files_downloaded = 0
    /\ summaries = <<>> /\ progress = <<>> /\ log = <<>> /\ reqs = {}
    /\ outcomes = <<>> /\ attempts = {} /\ lastWrite = NoWrite

Init ==
    /\ pc = "start"
    /\ \E sc \in Scenarios : cfg = sc.cfg /\ remote = sc.remote
    /\ fs = InitialTree
    /\ probe = NoProbe
    /\ Idle

CourseId == cidx + 1
ModuleDir == mods[midx]
DirNames(c, d) == {f.name : f \in {g \in fs : g.course = c /\ g.dir = d}}

\* open(target, "wb") / write_text: the file at that path is replaced.
WriteFile(tree, f) ==
    {g \in tree : ~(g.course = f.course /\ g.dir = f.dir /\ g.name = f.name)}
        \cup {f}

Emit(done, total) ==
    IF cfg.has_cb THEN Append(progress, [done |-> done, total |-> total])
    ELSE progress

(***************************************************************************)
(* download_canvas_courses.                                                *)
(***************************************************************************)

\* Course-set resolution, "Found n course(s)", the initial progress event.
\* Both forms of the courses expression run outside any try: a failing
\* get_course / get_courses leaves download_canvas_courses by exception.
ResolveCourses ==
    /\ pc = "start"
    /\ \E n \in 0..MaxCourses, ok \in BOOLEAN :
          IF ~ok
          THEN /\ pc' = "raised"
               /\ UNCHANGED <<num_courses, done_courses, log, progress>>
          ELSE /\ pc' = "loop"
               /\ num_courses' = n
               /\ done_courses' = 0
               /\ log' = Append(log, Line("found", 0, <<>>))
               /\ progress' = Emit(0, ProgressTotal(n))
    /\ UNCHANGED <<cfg, remote, cidx, mods, midx, mcount, icount, links,
                   downloaded_ids,
                   files_downloaded, pages_saved, linked_files_downloaded,
                   fs, summaries, reqs, outcomes, attempts, lastWrite, probe>>

\* Variant of the course-level except that keeps a record of the course.
SkipCourseRecorded(lines, cause) ==
    /\ log' = Append(lines, Line("skip", CourseId, cause))
    /\ cidx' = cidx + 1
    /\ outcomes' = Append(outcomes, "raised")
    /\ pc' = "loop"
    /\ summaries' = Append(summaries,
           [course_id |-> CourseId, files_downloaded |-> 0,
            pages_saved |-> 0, linked_files_downloaded |-> 0])
    /\ UNCHANGED <<progress, done_courses>>

\* except Exception as e: log("Skipping course {c.id}: {e}"), then the next
\* course.  lines is the log up to the raise, cause the exception's text.
SkipCourse(lines, cause) ==
    /\ log' = Append(lines, Line("skip", CourseId, cause))
    /\ cidx' = cidx + 1
    /\ outcomes' = Append(outcomes, "raised")
    /\ pc' = "loop"
    /\ UNCHANGED <<summaries, progress, done_courses>>

\* Top of the per-course try: get_course, the course directory, the
\* header line, get_modules + sort, the per-course set and counters.
CourseBegin ==
    /\ pc = "loop" /\ cidx < num_courses
    /\ \E ok_course \in BOOLEAN, ok_modules \in BOOLEAN,
          ms \in ModuleLists(MaxModules - mcount) :
          IF ~ok_course
          THEN /\ SkipCourse(log, <<"get_course">>)
               /\ UNCHANGED <<mods, midx, mcount, downloaded_ids,
                              files_downloaded, pages_saved,
                              linked_files_downloaded>>
          ELSE IF ~ok_modules
          THEN /\ SkipCourse(Append(log, Line("course", CourseId, <<>>)),
                             <<"get_modules">>)
               /\ UNCHANGED <<mods, midx, mcount, downloaded_ids,
                              files_downloaded, pages_saved,
                              linked_files_downloaded>>
          ELSE /\ log' = Append(log, Line("course", CourseId, <<>>))
               /\ mods' = SortByPosition(ms)
               /\ mcount' = mcount + Len(ms)
               /\ midx' = 0
               /\ downloaded_ids' = {}
               /\ files_downloaded' = 0
               /\ pages_saved' = 0
               /\ linked_files_downloaded' = 0
               /\ pc' = "module"
               /\ UNCHANGED <<cidx, outcomes, summaries, progress,
                              done_courses>>
    /\ UNCHANGED <<cfg, remote, num_courses, icount, links, fs, reqs,
                   attempts, lastWrite, probe>>

\* for module in modules: the module directory, then get_module_items();
\* when that raises, nothing inside the module loop catches it.
ModuleBegin ==
    /\ pc = "module" /\ midx < Len(mods)
    /\ \E ok \in BOOLEAN :
          IF ok
          THEN /\ midx' = midx + 1
               /\ pc' = "items"
               /\ UNCHANGED <<log, cidx, outcomes, summaries, progress,
                              done_courses>>
          ELSE /\ SkipCourse(log, <<"get_module_items">>)
               /\ UNCHANGED midx
    /\ UNCHANGED <<cfg, remote, num_courses, mods, mcount, icount, links,
                   downloaded_ids,
                   files_downloaded, pages_saved, linked_files_downloaded,
                   fs, reqs, attempts, lastWrite, probe>>

\* Lines 222-224 / 253-255: resolve, the allow-list test on the display
\* name, download_binary into the module directory.
FileOutcome(file_id, ok, resp) ==
    LET r == resolve_file_via_api(file_id.v, ok, remote, cfg.api_key)
        resolved == r.best # NoUrl /\ r.name # <<>>
        go == resolved /\ allowed_file_type(r.name, cfg.allowed_exts)
        dir == DirNames(CourseId, ModuleDir)
    IN [r |-> r, resolved |-> resolved, go |-> go, dir |-> dir,
        status |-> IF go THEN resp.status ELSE "not_fetched",
        d |-> download_binary(r.best, dir, r.name, resp, cfg.api_key,
                              cfg.allowed_exts)]

\* Variant of ApplyFile that records the identifier as soon as a fetch was
\* started, whether or not download_binary returned a path.
ApplyFileEager(file_id, o, kind) ==
    LET wrote == o.go /\ o.d.created # NoPath
        got == o.go /\ o.d.path # NoPath
    IN /\ reqs' = reqs \cup {o.r.request}
                       \cup (IF o.go THEN {o.d.request} ELSE {})
       /\ fs' = IF wrote
                THEN WriteFile(fs, [course |-> CourseId, dir |-> ModuleDir,
                                    name |-> o.d.created, fid |-> file_id.v,
                                    complete |-> o.d.complete, run |-> TRUE])
                ELSE fs
       /\ lastWrite' = IF wrote
                       THEN [dir |-> o.dir,
                             req |-> safe_name(o.r.name, DefaultMaxLen),
                             got |-> o.d.created]
                       ELSE lastWrite
       /\ attempts' = IF o.resolved
                      THEN attempts \cup {[disp |-> o.r.name,
                                           status |-> o.status,
                                           created |-> wrote]}
                      ELSE attempts
       /\ downloaded_ids' = IF o.go THEN downloaded_ids \cup {file_id}
                            ELSE downloaded_ids
       /\ files_downloaded' =
              IF got /\ kind = "file" THEN files_downloaded + 1
              ELSE files_downloaded
       /\ linked_files_downloaded' =
              IF got /\ kind = "link" THEN linked_files_downloaded + 1
              ELSE linked_files_downloaded
       /\ log' = log
              \o (IF o.go /\ o.d.logged
                  THEN <<Line("download_failed", CourseId, <<>>)>> ELSE <<>>)
              \o (IF got THEN <<Line(kind, CourseId, o.d.path)>> ELSE <<>>)

\* Lines 225-228 / 256-259 and what the two calls did to the session, the
\* tree and the log.  kind is "file" for a File item, "link" for a page link.
ApplyFile(file_id, o, kind) ==
    LET wrote == o.go /\ o.d.created # NoPath
        got == o.go /\ o.d.path # NoPath
    IN /\ reqs' = reqs \cup {o.r.request}
                       \cup (IF o.go THEN {o.d.request} ELSE {})
       /\ fs' = IF wrote
                THEN WriteFile(fs, [course |-> CourseId, dir |-> ModuleDir,
                                    name |-> o.d.created, fid |-> file_id.v,
                                    complete |-> o.d.complete, run |-> TRUE])
                ELSE fs
       /\ lastWrite' = IF wrote
                       THEN [dir |-> o.dir,
                             req |-> safe_name(o.r.name, DefaultMaxLen),
                             got |-> o.d.created]
                       ELSE lastWrite
       /\ attempts' = IF o.resolved
                      THEN attempts \cup {[disp |-> o.r.name,
                                           status |-> o.status,
                                           created |-> wrote]}
                      ELSE attempts
       /\ downloaded_ids' = IF got THEN downloaded_ids \cup {file_id}
                            ELSE downloaded_ids
       /\ files_downloaded' =
              IF got /\ kind = "file" THEN files_downloaded + 1
              ELSE files_downloaded
       /\ linked_files_downloaded' =
              IF got /\ kind = "link" THEN linked_files_downloaded + 1
              ELSE linked_files_downloaded
       /\ log' = log
              \o (IF o.go /\ o.d.logged
                  THEN <<Line("download_failed", CourseId, <<>>)>> ELSE <<>>)
              \o (IF got THEN <<Line(kind, CourseId, o.d.path)>> ELSE <<>>)

\* An item whose type is neither File nor Page.
ItemOther ==
    /\ pc = "items" /\ links = <<>> /\ icount < MaxItems
    /\ icount' = icount + 1
    /\ UNCHANGED <<pc, cfg, remote, num_courses, cidx, done_courses, mods,
                   midx, mcount,
                   links, downloaded_ids, files_downloaded, pages_saved,
                   linked_files_downloaded, fs, summaries, progress, log,
                   reqs, outcomes, attempts, lastWrite, probe>>

\* if itype == "File"
ItemFile ==
    /\ pc = "items" /\ links = <<>> /\ icount < MaxItems
    /\ icount' = icount + 1
    /\ \E file_id \in ContentIds :
          IF file_id = NoId \/ file_id \in downloaded_ids
          THEN UNCHANGED <<reqs, fs, lastWrite, attempts, downloaded_ids,
                           files_downloaded, linked_files_downloaded, log>>
          ELSE \E ok \in BOOLEAN, resp \in Resps :
                  ApplyFile(file_id, FileOutcome(file_id, ok, resp), "file")
    /\ UNCHANGED <<pc, cfg, remote, num_courses, cidx, done_courses, mods,
                   midx, mcount,
                   links, pages_saved, summaries, progress, outcomes, probe>>

\* if itype == "Page": get_page, the saved .html, then the links of the
\* body are queued for PageLink; when the extraction raises, the page's
\* except logs it and no link is handled.  The item carries no title of its own, so
\* title is its type.
ItemPage ==
    /\ pc = "items" /\ links = <<>> /\ icount < MaxItems
    /\ icount' = icount + 1
    /\ \E slug \in {"", "p"}, ok \in BOOLEAN, page \in Pages :
          IF slug = ""
          THEN UNCHANGED <<fs, lastWrite, pages_saved, log, links>>
          ELSE IF ~ok
          THEN /\ log' = Append(log, Line("page_failed", CourseId, PageType))
               /\ UNCHANGED <<fs, lastWrite, pages_saved, links>>
          ELSE LET title == IF page.title # <<>> THEN page.title
                                ELSE PageType
                   dir == DirNames(CourseId, ModuleDir)
                   filename == safe_name(title, DefaultMaxLen) \o Html
                   html_out == unique_path(dir, filename)
                   base_url == [netloc |-> api_url_clean.netloc,
                                path |-> api_url_clean.path
                                    \o <<"courses", ToString(CourseId),
                                         "pages", slug>>,
                                frag |-> ""]
               IN /\ fs' = WriteFile(fs, [course |-> CourseId,
                                          dir |-> ModuleDir,
                                          name |-> html_out, fid |-> "",
                                          complete |-> TRUE, run |-> TRUE])
                  /\ lastWrite' = [dir |-> dir, req |-> filename,
                                   got |-> html_out]
                  /\ pages_saved' = pages_saved + 1
                  /\ IF extract_raises(page.body)
                     THEN /\ log' = log
                                 \o <<Line("page", CourseId, html_out),
                                      Line("page_failed", CourseId, PageType)>>
                          /\ links' = <<>>
                     ELSE /\ log' = Append(log,
                                         Line("page", CourseId, html_out))
                          /\ links' = extract_all_links_from_html(page.body,
                                                                  base_url)
    /\ UNCHANGED <<pc, cfg, remote, num_courses, cidx, done_courses, mods,
                   midx, mcount,
                   downloaded_ids, files_downloaded, linked_files_downloaded,
                   summaries, progress, reqs, outcomes, attempts, probe>>

\* One turn of "for link in extract_all_links_from_html(page.body, base_url)".
PageLink ==
    /\ pc = "items" /\ links # <<>>
    /\ links' = Tail(links)
    /\ LET fid == extract_file_id(Head(links))
           file_id == [t |-> "str", v |-> fid]
       IN IF fid = "" \/ file_id \in downloaded_ids
          THEN UNCHANGED <<reqs, fs, lastWrite, attempts, downloaded_ids,
                           files_downloaded, linked_files_downloaded, log>>
          ELSE \E ok \in BOOLEAN, resp \in Resps :
                  ApplyFile(file_id, FileOutcome(file_id, ok, resp), "link")
    /\ UNCHANGED <<pc, cfg, remote, num_courses, cidx, done_courses, mods,
                   midx, mcount,
                   icount, pages_saved, summaries, progress, outcomes, probe>>

\* module.get_module_items() is exhausted.
ModuleEnd ==
    /\ pc = "items" /\ links = <<>>
    /\ pc' = "module"
    /\ UNCHANGED <<cfg, remote, num_courses, cidx, done_courses, mods, midx,
                   mcount, icount,
                   links, downloaded_ids, files_downloaded, pages_saved,
                   linked_files_downloaded, fs, summaries, progress, log,
                   reqs, outcomes, attempts, lastWrite, probe>>

\* After the module loop: the summary record, done_courses, the progress
\* event.  (course_name is not modelled.)
CourseEnd ==
    /\ pc = "module" /\ midx = Len(mods)
    /\ summaries' = Append(summaries,
           [course_id |-> CourseId, files_downloaded |-> files_downloaded,
            pages_saved |-> pages_saved,
            linked_files_downloaded |-> linked_files_downloaded])
    /\ done_courses' = done_courses + 1
    /\ progress' = Emit(done_courses + 1, ProgressTotal(num_courses))
    /\ cidx' = cidx + 1
    /\ outcomes' = Append(outcomes, "ok")
    /\ pc' = "loop"
    /\ UNCHANGED <<cfg, remote, num_courses, mods, midx, mcount, icount, links,
                   downloaded_ids, files_downloaded, pages_saved,
                   linked_files_downloaded, fs, log, reqs, attempts,
                   lastWrite, probe>>

\* After the course loop: the terminal progress event, return summaries.
Finish ==
    /\ pc = "loop" /\ cidx = num_courses
    /\ progress' = Emit(ProgressTotal(num_courses), ProgressTotal(num_courses))
    /\ pc' = "done"
    /\ UNCHANGED <<cfg, remote, num_courses, cidx, done_courses, mods, midx,
                   mcount, icount,
                   links, downloaded_ids, files_downloaded, pages_saved,
                   linked_files_downloaded, fs, summaries, log, reqs,
                   outcomes, attempts, lastWrite, probe>>

Next ==
    \/ ResolveCourses
    \/ CourseBegin
    \/ ModuleBegin
    \/ ItemOther
    \/ ItemFile
    \/ ItemPage
    \/ PageLink
    \/ ModuleEnd
    \/ CourseEnd
    \/ Finish

Spec == Init /\ [][Next]_vars

(***************************************************************************)
(* safe_name on its own: every short string over a small alphabet, every   *)
(* maxlen up to one past the longest string.                               *)
(***************************************************************************)
Alphabet == {"a", "/", " ", "\t"}
Strings == UNION {[1..n -> Alphabet] : n \in 0..MaxStrLen}

InitSafe ==
    /\ pc = "probe"
    /\ cfg = CfgDefaults
    /\ remote = NoJson
    /\ fs = {}
    /\ probe \in [s : Strings, maxlen : 0..(MaxStrLen + 1), once : {<<>>},
                  twice : {<<>>}, done : {FALSE}]
    /\ Idle

\* safe_name(s, maxlen), and safe_name applied to that result.
ApplySafeName ==
    /\ pc = "probe" /\ ~probe.done
    /\ probe' = [probe EXCEPT
                   !.once = safe_name(probe.s, probe.maxlen),
                   !.twice = safe_name(safe_name(probe.s, probe.maxlen),
                                       probe.maxlen),
                   !.done = TRUE]
    /\ UNCHANGED <<pc, cfg, remote, num_courses, cidx, done_courses, mods,
                   midx, mcount, icount, links, downloaded_ids,
                   files_downloaded, pages_saved, linked_files_downloaded,
                   fs, summaries, progress, log, reqs, outcomes, attempts,
                   lastWrite>>

NextSafe == ApplySafeName

SpecSafe == InitSafe /\ [][NextSafe]_vars

(***************************************************************************)
(* extract_all_links_from_html on its own: every fragment of at most       *)
(* MaxElems elements, against the URL of a page.                           *)
(***************************************************************************)
PageBase ==
    [netloc |-> CanvasNetloc,
     path |-> api_url_clean.path \o <<"courses", "1", "pages", "p">>,
     frag |-> ""]

\* Values of href / src / data.
AttrValues ==
    { NoAttr,
      Ref("empty", NoNetloc, <<>>, ""),
      Ref("blank", NoNetloc, <<>>, ""),
      Ref("malformed", NoNetloc, <<>>, ""),
      Ref("abspath", NoNetloc, <<"files", "1">>, ""),
      Ref("abspath", NoNetloc, <<"files", "1">>, "top"),
      Ref("abspath", NoNetloc, <<"files", "1", "preview">>, ""),
      Ref("abs", CdnNetloc, <<"x">>, "") }

\* Values of data-api-endpoint.
ApiValues ==
    { Ref("empty", NoNetloc, <<>>, ""),
      Ref("abs", CanvasNetloc, <<"api", "v1", "files", "2">>, ""),
      Ref("abspath", NoNetloc, <<"files", "1">>, "") }

Elements ==
    { [tag |-> t, val |-> v, api |-> NoAttr] :
          t \in {"a", "img", "embed", "object"}, v \in AttrValues }
    \cup { [tag |-> "div", val |-> NoAttr, api |-> v] : v \in ApiValues }
    \cup { [tag |-> "a", val |-> Ref("abspath", NoNetloc, <<"files", "1">>, ""),
            api |-> Ref("abs", CanvasNetloc,
                        <<"api", "v1", "files", "2">>, "")] }

Fragments == UNION {[1..n -> Elements] : n \in 0..MaxElems}

InitLinks ==
    /\ pc = "probe"
    /\ cfg = CfgDefaults
    /\ remote = NoJson
    /\ fs = {}
    /\ probe \in [html : Fragments, out : {<<>>}, raised : {FALSE},
                  done : {FALSE}]
    /\ Idle

\* extract_all_links_from_html(html, PageBase): the list, or the raise.
ApplyExtractLinks ==
    /\ pc = "probe" /\ ~probe.done
    /\ probe' = [probe EXCEPT
                   !.out = IF extract_raises(probe.html) THEN <<>>
                           ELSE extract_all_links_from_html(probe.html,
                                                            PageBase),
                   !.raised = extract_raises(probe.html),
                   !.done = TRUE]
    /\ UNCHANGED <<pc, cfg, remote, num_courses, cidx, done_courses, mods,
                   midx, mcount, icount, links, downloaded_ids,
                   files_downloaded, pages_saved, linked_files_downloaded,
                   fs, summaries, progress, log, reqs, outcomes, attempts,
                   lastWrite>>

NextLinks == ApplyExtractLinks

SpecLinks == InitLinks /\ [][NextLinks]_vars

(***************************************************************************)
(* Properties.                                                             *)
(***************************************************************************)
RunFiles(c, v) == {f \in fs : f.run /\ f.course = c /\ f.fid = v}

\* C1: in every course directory at most one file of this run, and so at
\* most one successful download, belongs to any one remote file identifier.
DedupInvariant ==
    \A c \in {f.course : f \in fs} : \A v \in DigitSegs :
        Cardinality(RunFiles(c, v)) <= 1

\* C2 as stated: when the run returns, progress_cb has received exactly
\* (0, N), (1, N), ..., (N, N), N the number of courses.
ProgressSequenceExact ==
    (pc = "done" /\ cfg.has_cb) =>
        progress = [k \in 1..(num_courses + 1) |->
                        [done |-> k - 1, total |-> num_courses]]

Completed == Len(SelectSeq(outcomes, LAMBDA o : o = "ok"))

\* C2 amended: with T = max(N, 1), progress_cb receives (0, T), then
\* (1, T), ..., (s, T), one right after each course that completed without
\* an uncaught failure (a course that raised emits nothing), and last (T, T).
ProgressSequenceAmended ==
    LET T == IF num_courses = 0 THEN 1 ELSE num_courses
        steps == [k \in 1..(Completed + 1) |-> [done |-> k - 1, total |-> T]]
    IN (cfg.has_cb /\ pc \notin {"start", "raised", "probe"}) =>
          /\ pc # "done" => progress = steps
          /\ pc = "done" => progress = Append(steps, [done |-> T, total |-> T])

ProgressWitness ==
    /\ pc = "done" /\ cfg.has_cb
    /\ outcomes = <<"raised", "ok">>

\* C3: download_canvas_courses never ends by raising.
RunNeverRaises == pc # "raised"

SkipLines(k) ==
    {i \in DOMAIN log : log[i].kind = "skip" /\ log[i].course = k}

\* C4: the summaries are the records of the courses that completed without
\* raising, in processing order, and the log holds one "Skipping course"
\* line for each course that raised and none for the others.
SummariesMatchOutcomes ==
    LET okIdx == SelectSeq([k \in 1..Len(outcomes) |-> k],
                           LAMBDA k : outcomes[k] = "ok")
    IN /\ Len(summaries) = Len(okIdx)
       /\ \A i \in 1..Len(okIdx) : summaries[i].course_id = okIdx[i]
       /\ \A k \in 1..Len(outcomes) :
             Cardinality(SkipLines(k)) = IF outcomes[k] = "raised" THEN 1 ELSE 0

\* Two courses, the first raised while its modules were listed: the run
\* returned the record of the second alone.
SummariesWitness ==
    /\ pc = "done"
    /\ outcomes = <<"raised", "ok">>
    /\ \E i \in SkipLines(1) : log[i].text = <<"get_modules">>
    /\ Len(summaries) = 1 /\ summaries[1].course_id = 2

\* C5: a resolved file is on disk exactly when its fetch succeeded and the
\* lower-cased extension of its display name is in the allow-list.
AllowListIff ==
    \A a \in attempts :
        a.created <=> (a.status = "ok"
                       /\ Lower(PathSuffix(a.disp))
                              \in ALLOWED_EXTS(cfg.allowed_exts))

SanitizeIdempotent ==
    probe.done =>
        /\ probe.twice = probe.once
        /\ \A i \in 1..Len(probe.once) : probe.once[i] \notin ForbiddenChars

\* C8: the name a file is written under was not in the directory before
\* the write: it is the requested name when that was free, otherwise
\* "<stem> (i)<suffix>" for the least i >= 1 that was free.
UniquePathFresh ==
    LET w == lastWrite
    IN w # NoWrite =>
          /\ w.got \notin w.dir
          /\ w.req \notin w.dir => w.got = w.req
          /\ w.req \in w.dir =>
                \E i \in 1..(Cardinality(w.dir) + 1) :
                    /\ w.got = Numbered(w.req, i)
                    /\ \A j \in 1..(i - 1) : Numbered(w.req, j) \in w.dir

\* The requested name and its " (1)" were both taken: " (2)" was written.
UniquePathWitness ==
    /\ lastWrite.req \in lastWrite.dir
    /\ Numbered(lastWrite.req, 1) \in lastWrite.dir
    /\ lastWrite.got = Numbered(lastWrite.req, 2)
    /\ \E f \in fs : f.run /\ f.name = lastWrite.got

\* C9: a course in which listing a module's items raised still has its
\* summary record.
ModuleFailureKeepsCourse ==
    \A k \in 1..Len(outcomes) :
        (\E i \in SkipLines(k) : log[i].text = <<"get_module_items">>)
            => \E j \in 1..Len(summaries) : summaries[j].course_id = k

\* C10: every file in the tree has its complete body.
NoPartialFile == \A f \in fs : f.complete

\* The URLs the attributes of tag contribute when empty, blank and malformed
\* values contribute none: the usable values, resolved against base.
UsableOf(html, tag, base) ==
    LET es == SelectSeq(html, LAMBDA e : e.tag = tag
                                 /\ e.val.form \in {"abs", "abspath"})
    IN [i \in 1..Len(es) |-> urljoin(base, es[i].val)]

UsableApis(html) ==
    LET es == SelectSeq(html, LAMBDA e : e.api.form \in {"abs", "abspath"})
    IN [i \in 1..Len(es) |-> Verbatim(es[i].api)]

\* C11: for every fragment, extract_all_links_from_html returns the URLs of
\* anchor href, image src, embed src, object data (resolved against the
\* base) and then data-api-endpoint (verbatim), fragments stripped and
\* duplicates dropped keeping the first; empty or malformed values
\* contribute no URL; /files/N and /files/N/preview are both kept and N is
\* extracted from both.
LinksAsStated ==
    probe.done =>
        /\ ~probe.raised
        /\ probe.out =
              Dedupe(UsableOf(probe.html, "a", PageBase)
                       \o UsableOf(probe.html, "img", PageBase)
                       \o UsableOf(probe.html, "embed", PageBase)
                       \o UsableOf(probe.html, "object", PageBase)
                       \o UsableApis(probe.html), {})
        /\ \A i \in 1..Len(probe.out) :
              (Len(probe.out[i].path) >= 2
                 /\ probe.out[i].path[1] = "files"
                 /\ probe.out[i].path[2] \in DigitSegs)
                  => extract_file_id(probe.out[i]) = probe.out[i].path[2]

InCourse == pc \in {"module", "items"}

CountersMatchSet ==
    files_downloaded + linked_files_downloaded = Cardinality(downloaded_ids)

\* The step starts a course's module loop (lines 200-205).
CourseStarts == pc = "loop" /\ pc' = "module"

\* The step ended with download_binary returning a path for id: the line
\* logged for it (228 / 259) is the last of the log and names a file of this
\* run that belongs to id.
ReturnedPath(id) ==
    /\ Len(log') > Len(log)
    /\ log'[Len(log')].kind \in {"file", "link"}
    /\ log'[Len(log')].course = CourseId
    /\ \E f \in fs' : /\ f.run /\ f.course = CourseId /\ f.fid = id.v
                       /\ f.name = log'[Len(log')].text

\* The step handles a page link whose identifier is not in the set.
FreshLinkReference ==
    /\ pc = "items" /\ links # <<>> /\ links' = Tail(links)
    /\ extract_file_id(Head(links)) # ""
    /\ [t |-> "str", v |-> extract_file_id(Head(links))] \notin downloaded_ids

====
